---- MODULE Spec2Model ----
(***************************************************************************)
(* Model of app.py, the Tacloban City coastal vulnerability viewer.        *)
(*                                                                         *)
(* The script is re-executed top to bottom on every user interaction.  One *)
(* execution (a "run") is modelled statement group by statement group with *)
(* a program counter; the only state that survives a run is the value of   *)
(* the sidebar radio widget.  The two data files are static inputs.        *)
(*                                                                         *)
(* Number representation                                                   *)
(*   scores            integers (the on-page legend uses the scale 1..5)   *)
(*   CVI               hundredths   (4.0 is 400, 1.01 is 101)              *)
(*   coordinates       thousandths of a degree (11.230 is 11230)           *)
(*   zoom              tenths       (13.5 is 135)                          *)
(*   a quotient        an exact fraction <<numerator, denominator>> in     *)
(*                     lowest terms                                        *)
(* A JSON object is a function whose DOMAIN is its set of keys, a JSON     *)
(* array a sequence.                                                       *)
(***************************************************************************)
EXTENDS Integers, Sequences, FiniteSets, TLC

VARIABLES
    landmarks_file,     \* content of landmarks.json (static input)
    kml_file,           \* content of tacloban_coastal_landmarks.kml (static input)
    radio,              \* session state of the sidebar radio widget
    radio_shown,        \* the radio widget exists in the browser
    pc,                 \* position of the current run in the script
    err,                \* exception that ended the current run, or NoError
    landmarks,          \* script global `landmarks`
    kml_polygons,       \* script global `kml_polygons`
    sel,                \* selected_name, selected_landmark, selected_cvi, selected_color
    view,               \* map_center, zoom_level
    m,                  \* the folium map: location, zoom_start, polygons
    out,                \* user-visible elements emitted by the current run
    shown,              \* what the last completed run rendered
    event,              \* the user event that started the current run
    arg,                \* input of a function under test
    ret                 \* its result

vars == <<landmarks_file, kml_file, radio, radio_shown, pc, err, landmarks,
          kml_polygons, sel, view, m, out, shown, event, arg, ret>>

appVars == <<landmarks_file, kml_file, radio, radio_shown, pc, err, landmarks,
             kml_polygons, sel, view, m, out, shown, event>>

-----------------------------------------------------------------------------
(* Bounds of the model *)

MaxLandmarks == 2       \* landmark records in landmarks.json
MaxImages == 4          \* image references of one landmark
MaxScore == 5           \* largest sub-assessment score
MaxIndex == 520         \* largest index value classified, in hundredths
MaxEntries == 2         \* coordinate entries of one placemark under test

-----------------------------------------------------------------------------
(* Python values *)

None == "None"
NoError == "NoError"
Unset == [set |-> FALSE]
Set(v) == [set |-> TRUE, val |-> v]

RECURSIVE SumSeq(_)
SumSeq(s) == IF s = <<>> THEN 0 ELSE Head(s) + SumSeq(Tail(s))

RECURSIVE GCD(_, _)
GCD(a, b) == IF b = 0 THEN a ELSE GCD(b, a % b)

\* a / b for a >= 0, b > 0: the exact quotient, in lowest terms
Div(a, b) == LET g == GCD(a, b) IN <<a \div g, b \div g>>

\* round(a / b, 2) in hundredths, a >= 0, b > 0: nearest, ties to even
Round2(a, b) ==
    LET q == (100 * a) \div b
        r == (100 * a) % b
    IN  IF 2 * r > b THEN q + 1
        ELSE IF 2 * r < b THEN q
        ELSE IF q % 2 = 0 THEN q ELSE q + 1

-----------------------------------------------------------------------------
(* CVI LOGIC *)

SubAssessments == <<"geomorphology", "natural_buffers", "engineering_structures">>

\* the first key that l[k]["score"] cannot read, in evaluation order; 0 if none
FirstMissing(l) ==
    LET bad == {k \in 1..3 : \/ SubAssessments[k] \notin DOMAIN l
                             \/ "score" \notin DOMAIN l[SubAssessments[k]]}
    IN  IF bad = {} THEN 0 ELSE CHOOSE k \in bad : \A j \in bad : k <= j

compute_cvi_floor(l) ==
    (100 * (l["geomorphology"]["score"] + l["natural_buffers"]["score"]
            + l["engineering_structures"]["score"])) \div 3

compute_cvi(l) ==
    Round2(l["geomorphology"]["score"] + l["natural_buffers"]["score"]
           + l["engineering_structures"]["score"], 3)

get_color_strict(cvi) ==
    IF cvi < 100 THEN "red"
    ELSE IF cvi < 200 THEN "orange"
    ELSE IF cvi < 300 THEN "yellow"
    ELSE IF cvi < 400 THEN "green"
    ELSE "blue"

get_color(cvi) ==
    IF cvi <= 100 THEN "red"
    ELSE IF cvi <= 200 THEN "orange"
    ELSE IF cvi <= 300 THEN "yellow"
    ELSE IF cvi <= 400 THEN "green"
    ELSE "blue"

-----------------------------------------------------------------------------
(* LOAD KML *)
(* A KML document is [wellformed, placemarks].  A placemark is a function  *)
(* on a subset of {"name", "coordinates"}; its coordinates text is the     *)
(* sequence of its whitespace-separated entries, an entry the sequence of  *)
(* its comma-separated tokens.  A token is a decimal literal               *)
(* <<whole, thousandths>>, or <<>> for text that float() rejects.          *)

float(tok) == tok[1] * 1000 + tok[2]

IsNumber(tok) == Len(tok) = 2

\* lon, lat, _ = map(float, c.split(",")) succeeds
Unpacks(c) == Len(c) = 3 /\ \A k \in 1..3 : IsNumber(c[k])

ParsePointNoSwap(c) == <<float(c[1]), float(c[2])>>

\* coords.append([lat, lon])
ParsePoint(c) == <<float(c[2]), float(c[1])>>

RECURSIVE ParseCoords(_)
ParseCoords(entries) ==
    IF entries = <<>> THEN <<>>
    ELSE <<ParsePoint(Head(entries))>> \o ParseCoords(Tail(entries))

Ok(v) == [ok |-> TRUE, val |-> v]
Raise(e) == [ok |-> FALSE, error |-> e]

\* polygons[name] = coords
SetItem(polygons, name, coords) ==
    [n \in DOMAIN polygons \cup {name} |->
        IF n = name THEN coords ELSE polygons[n]]

EmptyDict == [n \in {} |-> <<>>]

RECURSIVE LoadPlacemarks(_, _)
LoadPlacemarks(placemarks, polygons) ==
    IF placemarks = <<>> THEN Ok(polygons)
    ELSE LET p == Head(placemarks) IN
         IF "name" \notin DOMAIN p \/ "coordinates" \notin DOMAIN p
             THEN Raise("AttributeError")
         ELSE IF \E k \in 1..Len(p.coordinates) : ~Unpacks(p.coordinates[k])
             THEN Raise("ValueError")
         ELSE LoadPlacemarks(Tail(placemarks),
                             SetItem(polygons, p.name, ParseCoords(p.coordinates)))

load_kml(doc) ==
    IF ~doc.wellformed THEN Raise("ParseError")
    ELSE LoadPlacemarks(doc.placemarks, EmptyDict)

-----------------------------------------------------------------------------
(* The data files the script can be started on *)

NamePool == <<"Anibong Bay", "Astrodome", "Balyuan", "Magsaysay Blvd", "San Jose">>

Names == {NamePool[k] : k \in 1..MaxLandmarks}

SubAssessment(score) == [score |-> score, description |-> "text"]

Scored(name, g, n, e) ==
    [name |-> name, geomorphology |-> SubAssessment(g),
     natural_buffers |-> SubAssessment(n),
     engineering_structures |-> SubAssessment(e)]

ImageList(n) == [k \in 1..n |-> k]

WithImages(l, images) ==
    [k \in DOMAIN l \cup {"images"} |-> IF k = "images" THEN images ELSE l[k]]

Without(l, key) == [k \in DOMAIN l \ {key} |-> l[k]]

\* the records landmarks.json may hold for one name
LandmarkRecords(name) ==
    { Scored(name, 4, 3, 5),
      WithImages(Scored(name, 1, 1, 1), <<>>),
      WithImages(Scored(name, 5, 5, 4), ImageList(MaxImages)),
      WithImages(Scored(name, 2, 3, 3), <<7, 7>>),
      Without(WithImages(Scored(name, 2, 2, 2), ImageList(1)), "natural_buffers") }

\* the landmark lists over the names NamePool[from..MaxLandmarks], in pool order;
\* a name occurs at most once in a list (the name identifies the landmark)
RECURSIVE LandmarkLists(_)
LandmarkLists(from) ==
    IF from > MaxLandmarks THEN {<<>>}
    ELSE LET rest == LandmarkLists(from + 1) IN
         rest \cup {<<l>> \o r : l \in LandmarkRecords(NamePool[from]), r \in rest}

LandmarkFiles ==
    {[readable |-> FALSE, landmarks |-> <<>>]}
    \cup {[readable |-> TRUE, landmarks |-> ls] : ls \in LandmarkLists(1)}

Tok(thousandths) == <<thousandths \div 1000, thousandths % 1000>>

Entry(lon, lat) == <<Tok(lon), Tok(lat), Tok(0)>>

\* the boundary of the k-th name of the pool, as coordinates text
Ring(k) == << Entry(125000, 11200 + 10 * k),
              Entry(125002 + k, 11200 + 10 * k),
              Entry(125001, 11203 + 10 * k) >>

Placemark(name, entries) == [name |-> name, coordinates |-> entries]

\* per name: no placemark, a placemark with blank coordinates, or its ring
RECURSIVE PlacemarkLists(_)
PlacemarkLists(from) ==
    IF from > MaxLandmarks THEN {<<>>}
    ELSE LET rest == PlacemarkLists(from + 1)
             name == NamePool[from]
         IN  rest
             \cup {<<Placemark(name, <<>>)>> \o r : r \in rest}
             \cup {<<Placemark(name, Ring(from))>> \o r : r \in rest}

KmlFiles ==
    { [wellformed |-> FALSE, placemarks |-> <<>>],
      [wellformed |-> TRUE,
       placemarks |-> <<Placemark(NamePool[1], <<<<Tok(125000), Tok(11200)>>>>)>>] }
    \cup {[wellformed |-> TRUE, placemarks |-> ps] : ps \in PlacemarkLists(1)}

-----------------------------------------------------------------------------
(* The script, one run *)

DefaultLat == 11230         \* 11.230
DefaultLon == 125003        \* 125.003
DefaultZoom == 135          \* 13.5
SelectedZoom == 150         \* 15
SelectedWeight == 4
OtherWeight == 1
FillOpacity == 60           \* 0.6, in hundredths
GalleryColumns == 3

NoView == [set |-> FALSE]

NoMap == [created |-> FALSE]

NothingShown == [valid |-> FALSE]

SessionStart == [kind |-> "start"]

\* the state a run starts in
FreshRun ==
    /\ pc' = "load_landmarks"
    /\ err' = NoError
    /\ landmarks' = Unset
    /\ kml_polygons' = Unset
    /\ sel' = Unset
    /\ view' = NoView
    /\ m' = NoMap
    /\ out' = <<>>

\* an uncaught exception ends the run; what was emitted stays on the page (the
\* variables the failing statement group had already assigned are dead and are
\* left as they were)
Fail(e) ==
    /\ pc' = "error"
    /\ err' = e

\* lines 16-17
LoadLandmarks ==
    /\ pc = "load_landmarks"
    /\ IF landmarks_file.readable
          THEN /\ landmarks' = Set(landmarks_file.landmarks)
               /\ pc' = "load_kml"
               /\ err' = err
          ELSE /\ Fail("FileNotFoundError")
               /\ landmarks' = landmarks
    /\ UNCHANGED <<landmarks_file, kml_file, radio, radio_shown, kml_polygons,
                   sel, view, m, out, shown, event, arg, ret>>

\* line 66
LoadKml ==
    /\ pc = "load_kml"
    /\ LET r == load_kml(kml_file) IN
       IF r.ok
          THEN /\ kml_polygons' = Set(r.val)
               /\ pc' = "sidebar"
               /\ err' = err
          ELSE /\ Fail(r.error)
               /\ kml_polygons' = kml_polygons
    /\ UNCHANGED <<landmarks_file, kml_file, radio, radio_shown, landmarks,
                   sel, view, m, out, shown, event, arg, ret>>

\* line 73
landmark_names == [k \in 1..Len(landmarks.val) |-> landmarks.val[k].name]

RadioDefaultFirst(options) == IF options = <<>> THEN None ELSE options[1]

\* line 78: index=None, the value of the radio before the user has chosen
RadioDefault(options) == None

\* lines 71-79
Sidebar ==
    /\ pc = "sidebar"
    /\ LET value == IF radio_shown THEN radio ELSE RadioDefault(landmark_names) IN
       /\ radio' = value
       /\ sel' = Set([name |-> value])
    /\ radio_shown' = TRUE
    /\ out' = out \o << [kind |-> "sidebar.title"],
                        [kind |-> "sidebar.radio", options |-> landmark_names] >>
    /\ pc' = "center"
    /\ UNCHANGED <<landmarks_file, kml_file, err, landmarks, kml_polygons,
                   view, m, shown, event, arg, ret>>

Lats(coords) == [k \in 1..Len(coords) |-> coords[k][1]]
Lons(coords) == [k \in 1..Len(coords) |-> coords[k][2]]

CentroidFirstPoint(coords) == <<Div(coords[1][1], 1), Div(coords[1][2], 1)>>

\* lines 99-102, for a non-empty list of points
Centroid(coords) ==
    << Div(SumSeq(Lats(coords)), Len(coords)),
       Div(SumSeq(Lons(coords)), Len(coords)) >>

\* lines 91-93: the first landmark with that name
FirstNamed(ls, name) ==
    ls[CHOOSE k \in 1..Len(ls) :
          /\ ls[k].name = name
          /\ \A j \in 1..(k - 1) : ls[j].name # name]

\* lines 84-103
MapCenter ==
    /\ pc = "center"
    /\ IF sel.val.name = None
          THEN /\ view' = [set |-> TRUE,
                           map_center |-> <<Div(DefaultLat, 1), Div(DefaultLon, 1)>>,
                           zoom_level |-> DefaultZoom]
               /\ sel' = sel
               /\ pc' = "map"
               /\ err' = err
          ELSE LET name == sel.val.name
                   l == FirstNamed(landmarks.val, name)
               IN  IF FirstMissing(l) # 0
                      THEN Fail("KeyError") /\ UNCHANGED <<sel, view>>
                   ELSE IF name \notin DOMAIN kml_polygons.val
                      THEN Fail("KeyError") /\ UNCHANGED <<sel, view>>
                   ELSE IF Len(kml_polygons.val[name]) = 0
                      THEN Fail("ZeroDivisionError") /\ UNCHANGED <<sel, view>>
                   ELSE /\ sel' = Set([name |-> name, landmark |-> l,
                                       cvi |-> compute_cvi(l),
                                       color |-> get_color(compute_cvi(l))])
                        /\ view' = [set |-> TRUE,
                                    map_center |-> Centroid(kml_polygons.val[name]),
                                    zoom_level |-> SelectedZoom]
                        /\ pc' = "map"
                        /\ err' = err
    /\ UNCHANGED <<landmarks_file, kml_file, radio, radio_shown, landmarks,
                   kml_polygons, m, out, shown, event, arg, ret>>

\* lines 108-112
MapCreate ==
    /\ pc = "map"
    /\ m' = [created |-> TRUE, location |-> view.map_center,
             zoom_start |-> view.zoom_level, fullscreen |-> TRUE,
             polygons |-> <<>>]
    /\ pc' = IF Len(landmarks.val) = 0 THEN "main_ui" ELSE "polygons"
    /\ UNCHANGED <<landmarks_file, kml_file, radio, radio_shown, err, landmarks,
                   kml_polygons, sel, view, out, shown, event, arg, ret>>

BorderWeightAll(name, selected_name) == SelectedWeight

\* line 119
BorderWeight(name, selected_name) ==
    IF name = selected_name THEN SelectedWeight ELSE OtherWeight

\* lines 114-128, one iteration of the loop
DrawPolygon ==
    /\ pc = "polygons"
    /\ LET l == landmarks.val[Len(m.polygons) + 1] IN
       IF FirstMissing(l) # 0
          THEN Fail("KeyError") /\ m' = m
       ELSE IF l.name \notin DOMAIN kml_polygons.val
          THEN Fail("KeyError") /\ m' = m
       ELSE /\ m' = [m EXCEPT !.polygons = Append(@,
                        [locations |-> kml_polygons.val[l.name],
                         fill |-> TRUE,
                         fill_color |-> get_color(compute_cvi(l)),
                         fill_opacity |-> FillOpacity,
                         color |-> "black",
                         weight |-> BorderWeight(l.name, sel.val.name)])]
            /\ pc' = IF Len(m.polygons) + 1 = Len(landmarks.val)
                        THEN "main_ui" ELSE "polygons"
            /\ err' = err
    /\ UNCHANGED <<landmarks_file, kml_file, radio, radio_shown, landmarks,
                   kml_polygons, sel, view, out, shown, event, arg, ret>>

\* line 152: str.capitalize() of a colour name
Capitalize(color) ==
    CASE color = "red" -> "Red"
      [] color = "orange" -> "Orange"
      [] color = "yellow" -> "Yellow"
      [] color = "green" -> "Green"
      [] color = "blue" -> "Blue"

\* lines 141-166
DetailPanel ==
    IF sel.val.name = None
       THEN << [kind |-> "subheader", text |-> "No landmark selected"],
               [kind |-> "info"] >>
       ELSE LET l == sel.val.landmark IN
            << [kind |-> "subheader", text |-> sel.val.name],
               [kind |-> "index", cvi |-> sel.val.cvi,
                level |-> Capitalize(sel.val.color)],
               [kind |-> "breakdown",
                scores |-> [k \in 1..3 |-> l[SubAssessments[k]].score],
                descriptions |-> [k \in 1..3 |-> l[SubAssessments[k]].description]] >>

\* lines 133-183
MainUI ==
    /\ pc = "main_ui"
    /\ out' = out \o << [kind |-> "title"], [kind |-> "map", map |-> m] >>
                  \o DetailPanel
                  \o << [kind |-> "explanation"] >>
    /\ pc' = "images"
    /\ UNCHANGED <<landmarks_file, kml_file, radio, radio_shown, err, landmarks,
                   kml_polygons, sel, view, m, shown, event, arg, ret>>

GalleryColumnByRow(idx) == idx \div GalleryColumns

\* line 200: the column of the image at position idx (from 0)
GalleryColumn(idx) == idx % GalleryColumns

\* lines 199-205: the columns after the images from position idx on are placed
RECURSIVE PlaceImages(_, _, _, _)
PlaceImages(images, idx, caption, cols) ==
    IF idx >= Len(images) THEN cols
    ELSE PlaceImages(images, idx + 1, caption,
            [cols EXCEPT ![GalleryColumn(idx) + 1] =
                Append(@, [image |-> images[idx + 1], caption |-> caption])])

\* line 193: selected_landmark.get("images", [])
GetImages(l) == IF "images" \in DOMAIN l THEN l.images ELSE <<>>

\* lines 190-205
Gallery ==
    IF sel.val.name = None THEN << [kind |-> "info"] >>
    ELSE LET images == GetImages(sel.val.landmark) IN
         IF images = <<>> THEN << [kind |-> "warning"] >>
         ELSE << [kind |-> "columns",
                  cols |-> PlaceImages(images, 0, sel.val.name,
                                       [c \in 1..GalleryColumns |-> <<>>])] >>

\* lines 188-208; the run is complete
ImageShowcase ==
    /\ pc = "images"
    /\ out' = out \o << [kind |-> "gallery.header"] >> \o Gallery
                  \o << [kind |-> "footer"] >>
    /\ pc' = "done"
    /\ shown' = [valid |-> TRUE, selection |-> sel.val.name, map |-> m, out |-> out']
    /\ UNCHANGED <<landmarks_file, kml_file, radio, radio_shown, err, landmarks,
                   kml_polygons, sel, view, m, event, arg, ret>>

-----------------------------------------------------------------------------
(* The user *)

SelectRadioToggle(current, name) == IF current = name THEN None ELSE name

\* the radio's value after the user clicks the option `name`
SelectRadio(current, name) == name

\* lines 75-79: the user clicks an option of the radio; the script runs again
Select(name) ==
    /\ radio_shown
    /\ landmarks_file.readable
    /\ \E k \in 1..Len(landmarks_file.landmarks) :
          landmarks_file.landmarks[k].name = name
    /\ radio' = SelectRadio(radio, name)
    /\ event' = [kind |-> "select", name |-> name, again |-> (radio = name)]
    /\ FreshRun
    /\ UNCHANGED <<landmarks_file, kml_file, radio_shown, shown, arg, ret>>

\* line 138: st_folium reports a pan, zoom or click on the map; the script
\* runs again
MapInteraction ==
    /\ pc \in {"images", "done"}
    /\ event' = [kind |-> "map"]
    /\ FreshRun
    /\ UNCHANGED <<landmarks_file, kml_file, radio, radio_shown, shown, arg, ret>>

-----------------------------------------------------------------------------
(* The session *)

NoArg == [fn |-> "none"]

NoRet == [done |-> FALSE]

Init ==
    /\ landmarks_file \in LandmarkFiles
    /\ kml_file \in KmlFiles
    /\ radio = None
    /\ radio_shown = FALSE
    /\ pc = "load_landmarks"
    /\ err = NoError
    /\ landmarks = Unset
    /\ kml_polygons = Unset
    /\ sel = Unset
    /\ view = NoView
    /\ m = NoMap
    /\ out = <<>>
    /\ shown = NothingShown
    /\ event = SessionStart
    /\ arg = NoArg
    /\ ret = NoRet

Next ==
    \/ LoadLandmarks
    \/ LoadKml
    \/ Sidebar
    \/ MapCenter
    \/ MapCreate
    \/ DrawPolygon
    \/ MainUI
    \/ ImageShowcase
    \/ \E name \in Names : Select(name)
    \/ MapInteraction

Spec == Init /\ [][Next]_vars

-----------------------------------------------------------------------------
(* The functions on their own: each specification draws an argument and    *)
(* applies the function to it once.  The script is not running.            *)

NotRunning ==
    /\ landmarks_file = [readable |-> FALSE, landmarks |-> <<>>]
    /\ kml_file = [wellformed |-> FALSE, placemarks |-> <<>>]
    /\ radio = None
    /\ radio_shown = FALSE
    /\ pc = "off"
    /\ err = NoError
    /\ landmarks = Unset
    /\ kml_polygons = Unset
    /\ sel = Unset
    /\ view = NoView
    /\ m = NoMap
    /\ out = <<>>
    /\ shown = NothingShown
    /\ event = SessionStart

Return(v) == [done |-> TRUE, val |-> v]

(* get_color *)

InitColor ==
    /\ NotRunning
    /\ \E cvi \in 0..MaxIndex : arg = [fn |-> "get_color", cvi |-> cvi]
    /\ ret = NoRet

CallGetColor ==
    /\ arg.fn = "get_color"
    /\ ~ret.done
    /\ ret' = Return(get_color(arg.cvi))
    /\ UNCHANGED <<appVars, arg>>

SpecColor == InitColor /\ [][CallGetColor]_vars

(* compute_cvi *)

\* landmarks with three integer scores, and other content that varies
ScoredLandmarks ==
    LET scored == {Scored(name, g, n, e) : name \in Names,
                       g \in 0..MaxScore, n \in 0..MaxScore, e \in 0..MaxScore}
    IN  scored
        \cup {WithImages(l, ImageList(1)) : l \in scored}
        \cup {[l EXCEPT !.geomorphology.description = "other"] : l \in scored}

InitCvi ==
    /\ NotRunning
    /\ \E l \in ScoredLandmarks : arg = [fn |-> "compute_cvi", l |-> l]
    /\ ret = NoRet

CallComputeCvi ==
    /\ arg.fn = "compute_cvi"
    /\ ~ret.done
    /\ ret' = Return(compute_cvi(arg.l))
    /\ UNCHANGED <<appVars, arg>>

SpecCvi == InitCvi /\ [][CallComputeCvi]_vars

(* load_kml *)

\* entries with and without altitude, with a token that is no number, and
\* with a fourth component
TestEntries ==
    {Entry(lon, lat) : lon \in {125000, 124998}, lat \in {11200, 11230}}
    \cup { <<Tok(125000), Tok(11200)>>,
           <<Tok(124998), Tok(11230)>>,
           <<Tok(125000), <<>>, Tok(0)>>,
           <<Tok(125000), Tok(11200), Tok(0), Tok(0)>> }

RECURSIVE EntryLists(_)
EntryLists(n) ==
    IF n = 0 THEN {<<>>}
    ELSE LET shorter == EntryLists(n - 1) IN
         shorter \cup {<<c>> \o es : c \in TestEntries, es \in {x \in shorter : Len(x) = n - 1}}

TestPlacemarks ==
    {Placemark(name, es) : name \in Names, es \in EntryLists(MaxEntries)}
    \cup {[name |-> NamePool[1]], [coordinates |-> Ring(1)]}

\* a second placemark: another region, or the name of the first one again
SecondPlacemarks ==
    {Placemark(name, <<Entry(125010, 11250)>>) : name \in Names}
    \cup {Placemark(NamePool[1], <<<<Tok(125010), Tok(11250)>>>>)}

TestKmlFiles ==
    {[wellformed |-> FALSE, placemarks |-> <<>>],
     [wellformed |-> TRUE, placemarks |-> <<>>]}
    \cup {[wellformed |-> TRUE, placemarks |-> <<p>>] : p \in TestPlacemarks}
    \cup {[wellformed |-> TRUE, placemarks |-> <<p, q>>] :
              p \in TestPlacemarks, q \in SecondPlacemarks}

InitKml ==
    /\ NotRunning
    /\ \E doc \in TestKmlFiles : arg = [fn |-> "load_kml", doc |-> doc]
    /\ ret = NoRet

CallLoadKml ==
    /\ arg.fn = "load_kml"
    /\ ~ret.done
    /\ ret' = Return(load_kml(arg.doc))
    /\ UNCHANGED <<appVars, arg>>

SpecKml == InitKml /\ [][CallLoadKml]_vars

-----------------------------------------------------------------------------
(* Properties *)

C2_RoundedMean ==
    (arg.fn = "compute_cvi" /\ ret.done) =>
        LET g == arg.l.geomorphology.score
            n == arg.l.natural_buffers.score
            e == arg.l.engineering_structures.score
            d == 3 * ret.val - 100 * (g + n + e)
        IN  /\ 2 * d <= 3
            /\ 2 * d >= -3
            /\ (<<g, n, e>> = <<4, 3, 5>> => ret.val = 400)

C2_Witness ==
    /\ arg.fn = "compute_cvi"
    /\ ret.done
    /\ arg.l.geomorphology.score = 1
    /\ arg.l.natural_buffers.score = 2
    /\ arg.l.engineering_structures.score = 2
    /\ "images" \in DOMAIN arg.l
    /\ ret.val = 167

\* the last placemark of ps named `name`
LastNamed(ps, name) ==
    ps[CHOOSE k \in 1..Len(ps) :
          /\ ps[k].name = name
          /\ \A j \in (k + 1)..Len(ps) : ps[j].name # name]

\* C5 (as stated): load_kml stores for each named region one pair per
\* coordinate entry, in source order, and for every entry
\* "longitude,latitude[,altitude]", altitude present or absent, the stored pair
\* is (latitude, longitude).
C5_AltitudeOptional ==
    (/\ arg.fn = "load_kml"
     /\ ret.done
     /\ arg.doc.wellformed
     /\ \A k \in 1..Len(arg.doc.placemarks) :
           LET p == arg.doc.placemarks[k] IN
           /\ DOMAIN p = {"name", "coordinates"}
           /\ \A j \in 1..Len(p.coordinates) :
                 LET c == p.coordinates[j] IN
                 /\ Len(c) \in {2, 3}
                 /\ \A t \in 1..Len(c) : Len(c[t]) = 2)
    => /\ ret.val.ok
       /\ \A k \in 1..Len(arg.doc.placemarks) :
             LET name == arg.doc.placemarks[k].name
                 es == LastNamed(arg.doc.placemarks, name).coordinates
             IN  /\ name \in DOMAIN ret.val.val
                 /\ Len(ret.val.val[name]) = Len(es)
                 /\ \A j \in 1..Len(es) :
                       ret.val.val[name][j] =
                           << es[j][2][1] * 1000 + es[j][2][2],
                              es[j][1][1] * 1000 + es[j][1][2] >>

\* the boundaries and the landmark names as the files give them
FileBoundaries == load_kml(kml_file)

FileLandmarkNames ==
    {landmarks_file.landmarks[k].name : k \in 1..Len(landmarks_file.landmarks)}

\* both files load, and some landmark name has no boundary
UnmatchedName ==
    /\ landmarks_file.readable
    /\ FileBoundaries.ok
    /\ \E name \in FileLandmarkNames : name \notin DOMAIN FileBoundaries.val

\* C3 (as stated): whenever the landmark set holds a name with no entry in the
\* boundary mapping, the run fails at load time, before anything is rendered,
\* whatever the selection.
C3_FailsAtLoadTime ==
    UnmatchedName => \/ pc \in {"load_landmarks", "load_kml"}
                     \/ pc = "error" /\ out = <<>>

Kinds(elements) == {elements[k].kind : k \in 1..Len(elements)}

\* C4 (as stated): a run either produces all its outputs (selection control,
\* map with every landmark's polygon, detail panel, image section) or fails
\* before any output is produced.
C4_NoPartialFailure ==
    /\ pc = "error" => out = <<>>
    /\ pc = "done" =>
          /\ {"sidebar.radio", "map", "subheader", "gallery.header"} \subseteq Kinds(out)
          /\ Len(m.polygons) = Len(landmarks_file.landmarks)

\* C6: the map of a run with no selection is centred on [11.230, 125.003] at
\* zoom 13.5; the map of a run with a selection is centred on (mean latitude,
\* mean longitude) of the points of the selected landmark's own boundary, at
\* zoom 15.
C6_MapCenter ==
    m.created =>
        IF radio = None
           THEN /\ m.location = <<<<11230, 1>>, <<125003, 1>>>>
                /\ m.zoom_start = 135
           ELSE LET pts == FileBoundaries.val[radio]
                    lat == m.location[1]
                    lon == m.location[2]
                IN  /\ Len(pts) > 0
                    /\ lat[1] * Len(pts) = lat[2] * SumSeq(Lats(pts))
                    /\ lon[1] * Len(pts) = lon[2] * SumSeq(Lons(pts))
                    /\ m.zoom_start = 150

\* a selected landmark whose map is drawn while another landmark has a boundary
\* with another centroid
C6_Witness ==
    /\ pc = "done"
    /\ radio = NamePool[2]
    /\ NamePool[1] \in DOMAIN FileBoundaries.val
    /\ Len(FileBoundaries.val[NamePool[1]]) > 0
    /\ m.location # Centroid(FileBoundaries.val[NamePool[1]])

\* C7: once the polygons are drawn every landmark has exactly one polygon, in
\* load order; the polygon of the selected landmark has weight 4 and every
\* other polygon weight 1, so no polygon is emphasised without a selection and
\* exactly one with a selection.
C7_BinaryEmphasis ==
    pc \in {"main_ui", "images", "done"} =>
        LET ls == landmarks_file.landmarks
            thick == {k \in 1..Len(m.polygons) : m.polygons[k].weight = 4}
            thin == {k \in 1..Len(m.polygons) : m.polygons[k].weight = 1}
        IN  /\ Len(m.polygons) = Len(ls)
            /\ \A k \in 1..Len(ls) :
                  /\ m.polygons[k].locations = FileBoundaries.val[ls[k].name]
                  /\ k \in thick <=> ls[k].name = radio
                  /\ k \in thin <=> ls[k].name # radio
            /\ Cardinality(thick) = IF radio = None THEN 0 ELSE 1

C7_Witness ==
    /\ pc = "done"
    /\ radio # None
    /\ Len(m.polygons) >= 2
    /\ \E k \in 1..Len(m.polygons) : m.polygons[k].weight = 4
    /\ \E k \in 1..Len(m.polygons) : m.polygons[k].weight = 1

\* C8: selecting the name that is already selected leaves the selection as the
\* first selection made it, and the run it starts renders the same map (centre,
\* zoom, emphasis) and the same panels as the run of the first selection.
C8_SelectIdempotent ==
    [][ /\ \A name \in Names : (Select(name) /\ radio = name) => radio' = radio
        /\ (/\ pc' = "done"
            /\ pc # "done"
            /\ event.kind = "select"
            /\ event.again
            /\ shown.valid
            /\ shown.selection = radio) => shown' = shown ]_vars

\* a run started by selecting the selected name again has completed, after a
\* completed run for the first selection
C8_Witness ==
    /\ pc = "done"
    /\ event.kind = "select"
    /\ event.again
    /\ radio = event.name
    /\ shown.valid
    /\ shown.selection = radio
    /\ shown.map.zoom_start = 150

\* C9: the selection is none until the user selects, is always none or the
\* name of a loaded landmark, and changes only when the user selects; a run
\* changes neither the selection nor the data files, and what it loaded stays
\* as loaded.
C9_SelectionFrame ==
    /\ [](/\ radio = None \/ radio \in FileLandmarkNames
          /\ event.kind = "start" => radio = None
          /\ landmarks.set => landmarks.val = landmarks_file.landmarks
          /\ kml_polygons.set => kml_polygons.val = FileBoundaries.val)
    /\ [][ /\ radio' # radio => \E name \in Names : Select(name)
           /\ landmarks_file' = landmarks_file
           /\ kml_file' = kml_file ]_vars

\* a run started by the map, after a selection, has completed
C9_Witness ==
    /\ pc = "done"
    /\ event.kind = "map"
    /\ radio # None
    /\ shown.valid
    /\ shown.selection = radio

\* the image references of the selected landmark, as the file gives them
FileImages ==
    LET l == FirstNamed(landmarks_file.landmarks, radio) IN
    IF "images" \in DOMAIN l THEN l.images ELSE <<>>

\* C10: for a selected landmark the gallery shows the "no images" notice and no
\* image when the images list is empty or absent; otherwise it shows every image
\* once in 3 columns, the image at load-order position i (from 0) in column
\* i mod 3 and row i div 3, captioned with the landmark name.
C10_Gallery ==
    (pc = "done" /\ radio # None) =>
        LET notices == {k \in 1..Len(out) : out[k].kind = "warning"}
            grids == {k \in 1..Len(out) : out[k].kind = "columns"}
        IN  IF FileImages = <<>>
               THEN Cardinality(notices) = 1 /\ grids = {}
               ELSE /\ notices = {}
                    /\ Cardinality(grids) = 1
                    /\ \A k \in grids :
                          LET cols == out[k].cols IN
                          /\ Len(cols) = 3
                          /\ Len(cols[1]) + Len(cols[2]) + Len(cols[3]) = Len(FileImages)
                          /\ \A i \in 0..(Len(FileImages) - 1) :
                                /\ (i \div 3) + 1 \in DOMAIN cols[(i % 3) + 1]
                                /\ cols[(i % 3) + 1][(i \div 3) + 1] =
                                       [image |-> FileImages[i + 1], caption |-> radio]

\* a gallery of at least 4 images: a full row and a second row
C10_Witness ==
    /\ pc = "done"
    /\ radio # None
    /\ Len(FileImages) >= 4
    /\ \E k \in 1..Len(out) :
          /\ out[k].kind = "columns"
          /\ Len(out[k].cols[1]) = 2
          /\ Len(out[k].cols[3]) = 1

====
